---- MODULE Spec2Model ----
(***************************************************************************)
(* The container engine of src/lib.rs: a registry (a sharded concurrent    *)
(* map from container name to container handle), the request handlers      *)
(* create / state / pause / resume / delete running as concurrent tasks,   *)
(* the interrupt task that clears the registry and exits, and the OCI       *)
(* runtime the handles talk to.                                             *)
(*                                                                         *)
(* A step of a task is the code between two suspension points (.await) or  *)
(* one blocking call.  An external command is one step: its effect on the  *)
(* runtime and its exit status are decided together.                       *)
(***************************************************************************)
EXTENDS Integers, FiniteSets, Sequences, TLC

\* ---------------------------------------------------------------- bounds
NumNames == 2
NumTasks == 2
NumShards == 2
MaxOps == 3

Shards == 1..NumShards

\* The interrupt task of Engine::new is task 0 in the event record.
SigTask == 0

\* Handle identities: one per container the monitor brought up.  There are
\* always enough: a handle is in the registry, known to the runtime, held by
\* a task, remembered from the moment of the interrupt, or being dropped by
\* clear().
HandleIds == 1..(3 * NumNames + NumTasks + 1)
NoHandle == 0

EXIT_CODE == 130

VARIABLES
    containers,  \* Engine.containers: name -> handle (NoHandle: not a key)
    shardOf,     \* the DashMap's hash: name -> shard
    runtime,     \* what the OCI runtime knows: name -> [inst, st]
    pc,          \* per task: where the handler is suspended
    op,          \* per task: the engine operation it runs
    nm,          \* per task: the container name it was called with
    held,        \* per task: the Container it owns (not in the registry)
    ret,         \* per task: the result it will return once it has dropped `held`
    sig,         \* the interrupt task: waiting, clearing, dropping, exited
    ci,          \* the shard the interrupt task's clear() has reached
    exitCode,    \* the process's exit code (-1 while it runs)
    started,     \* number of engine calls made so far
    ev,          \* what the last step did: task, operation, runtime command, result
    deleted,     \* names removed by Engine::delete and not inserted since
    registered,  \* names that have been keys of the registry
    atSignal,    \* the registry as it was when the interrupt arrived
    tdir,        \* per task: the temporary directory its create call owns
    baseDirs,    \* the handles whose bundle base directory is on disk
    call,        \* the last call of a function on its own: name, input, result
    dropping     \* the handle clear() is dropping: its drop() has run, its
                 \* fields are still to be dropped

vars == <<containers, shardOf, runtime, pc, op, nm, held, ret, sig, ci,
          exitCode, started, ev, deleted, registered, atSignal, tdir, baseDirs,
          call, dropping>>

\* The container names in play and the request tasks.
Names == DOMAIN containers
Tasks == DOMAIN pc

NoContainer == [inst |-> NoHandle, st |-> "none"]

\* The record of a step: the task, its operation and the name it was called with,
\* where the task stood, the runtime command the step ran (`crun`) with the id it
\* was given, or the name a not-found error carries (`id`), and what the call
\* returned, if the step returned.
Event(t, o, at, n, c, i, r) ==
    [t |-> t, op |-> o, at |-> at, arg |-> n, crun |-> c, id |-> i, ret |-> r]

NoName == 0

NoEvent == Event(SigTask, "none", "none", NoName, "none", NoName, "none")

Alive == sig # "exited"

\* No function has been called on its own.
NoCall == [fn |-> "none"]

\* ------------------------------------------------------- the sharded map
\* DashMap::get returns a Ref that holds the shard's read lock; the handlers
\* keep it across the await of the runtime command (lib.rs 78-79).
Readers(s) == {t \in Tasks : pc[t] = "borrow" /\ shardOf[nm[t]] = s}

\* clear() holds the write lock of the shard whose entries it is dropping.
WriteLocked(s) == sig = "dropping" /\ ci = s

CanRead(n) == ~WriteLocked(shardOf[n])

\* A write lock that does not wait for the shard's readers.
CanWriteAmongReaders(n) == ~WriteLocked(shardOf[n])

CanWrite(n) == ~WriteLocked(shardOf[n]) /\ Readers(shardOf[n]) = {}

InUse ==
    {containers[n] : n \in Names} \cup {runtime[n].inst : n \in Names}
        \cup {held[t] : t \in Tasks} \cup {atSignal[n] : n \in Names}
        \cup {dropping}

Fresh == CHOOSE x \in HandleIds \ InUse : \A y \in HandleIds \ InUse : x <= y

\* ------------------------------------------------------------ the runtime
\* `crun delete --force <id>`: the container leaves the runtime's table.
RuntimeDelete(n, ok) ==
    IF ok THEN [runtime EXCEPT ![n] = NoContainer] ELSE runtime

\* The engine with `names` container names in play and `tasks` request tasks, all
\* idle.  Each name is either not a key, or the key of a container that an
\* earlier create brought up and started (handle n for name n).  Names are
\* numbered in the order of their shards.
InitWith(names, tasks) ==
    /\ containers \in [1..names -> {NoHandle}] \cup
                      {f \in [1..names -> 0..names] : \A n \in 1..names : f[n] \in {NoHandle, n}}
    /\ shardOf \in {f \in [1..names -> Shards] :
                       /\ f[1] = 1
                       /\ \A n \in 2..names : f[n - 1] <= f[n]}
    /\ runtime = [n \in 1..names |->
                    IF containers[n] = NoHandle THEN NoContainer
                    ELSE [inst |-> containers[n], st |-> "running"]]
    /\ pc = [t \in 1..tasks |-> "idle"]
    /\ op = [t \in 1..tasks |-> "none"]
    /\ nm = [t \in 1..tasks |-> 1]
    /\ held = [t \in 1..tasks |-> NoHandle]
    /\ ret = [t \in 1..tasks |-> "none"]
    /\ sig = "waiting"
    /\ ci = 1
    /\ exitCode = -1
    /\ started = 0
    /\ ev = NoEvent
    /\ deleted = {}
    /\ registered = {n \in 1..names : containers[n] # NoHandle}
    /\ atSignal = [n \in 1..names |-> NoHandle]
    /\ tdir = [t \in 1..tasks |-> "none"]
    /\ baseDirs = {containers[n] : n \in 1..names} \ {NoHandle}
    /\ call = NoCall
    /\ dropping = NoHandle

Init == InitWith(NumNames, NumTasks)

\* ---------------------------------------------------------------- frames
SigUnchanged ==
    UNCHANGED <<shardOf, sig, ci, exitCode, atSignal, tdir, baseDirs, call, dropping>>

\* What a step of a call already under way leaves alone.
CallUnchanged ==
    UNCHANGED <<shardOf, sig, ci, exitCode, atSignal, started, call, dropping>>

\* The task returns to its caller and is ready for the next request.
Return(t) ==
    /\ pc' = [pc EXCEPT ![t] = "idle"]
    /\ op' = [op EXCEPT ![t] = "none"]
    /\ nm' = [nm EXCEPT ![t] = 1]
    /\ held' = [held EXCEPT ![t] = NoHandle]
    /\ ret' = [ret EXCEPT ![t] = "none"]
    /\ tdir' = [tdir EXCEPT ![t] = "none"]

\* The call goes on from `where`.
Goto(t, where) ==
    /\ pc' = [pc EXCEPT ![t] = where]
    /\ UNCHANGED <<op, nm>>

\* The call `o(n)` is polled for the first time and suspends at `where`.
Begin(t, o, n, where) ==
    /\ pc' = [pc EXCEPT ![t] = where]
    /\ op' = [op EXCEPT ![t] = o]
    /\ nm' = [nm EXCEPT ![t] = n]

\* The call returned at its first poll.
Returned == UNCHANGED <<pc, op, nm>>

\* The temporary directory a create call owns when it is suspended at `where`:
\* the fetched image (image.rs 32, OciImage) until unpack has returned
\* (image.rs 61-63 consumes it), then the bundle's base directory (image.rs 88,
\* OciBundle.base_dir) until the bundle is moved into the Container
\* (container.rs 108).
DirAt(where) ==
    CASE where = "unpack" -> "image"
      [] where \in {"spawn", "ready", "wait", "waitE", "getpid", "connect"} -> "bundle"
      [] OTHER -> "none"

\* A step of create before the monitor has brought a container up: an external
\* command ran; on success the handler goes on to `next`, on failure the
\* `?` returns the error and the call's temporary directory is removed as its
\* owner is dropped.  Nothing shared is touched.
LocalStep(t, from, next, ok) ==
    /\ Alive
    /\ pc[t] = from
    /\ IF ok
       THEN /\ Goto(t, next)
            /\ tdir' = [tdir EXCEPT ![t] = DirAt(next)]
            /\ ev' = Event(t, op[t], from, nm[t], "none", NoName, "none")
            /\ UNCHANGED <<held, ret>>
       ELSE /\ Return(t)
            /\ ev' = Event(t, op[t], from, nm[t], "none", NoName, "err")
    /\ UNCHANGED <<containers, runtime, deleted, registered, baseDirs>>
    /\ CallUnchanged

\* ------------------------------------------------------- Engine::create
\* CreateCheck without the contains_key early return.
CreateCheckAlways(t, n) ==
    /\ Alive
    /\ pc[t] = "idle"
    /\ started < MaxOps
    /\ CanRead(n)
    /\ started' = started + 1
    /\ Begin(t, "create", n, "fetch")
    /\ ev' = Event(t, "create", "idle", n, "none", NoName, "none")
    /\ UNCHANGED <<containers, runtime, held, ret, deleted, registered>>
    /\ SigUnchanged

\* CreateCheck behind a per-key guard: a create of a name another create is
\* bringing up returns at once.
CreateCheckGuarded(t, n) ==
    /\ Alive
    /\ pc[t] = "idle"
    /\ started < MaxOps
    /\ CanRead(n)
    /\ started' = started + 1
    /\ IF \/ containers[n] # NoHandle
          \/ \E u \in Tasks : op[u] = "create" /\ nm[u] = n
       THEN /\ Returned
            /\ ev' = Event(t, "create", "idle", n, "none", NoName, "ok")
       ELSE /\ Begin(t, "create", n, "fetch")
            /\ ev' = Event(t, "create", "idle", n, "none", NoName, "none")
    /\ UNCHANGED <<containers, runtime, held, ret, deleted, registered>>
    /\ SigUnchanged

\* lib.rs 57-60: the contains_key check, made when the call is first polled.
CreateCheck(t, n) ==
    /\ Alive
    /\ pc[t] = "idle"
    /\ started < MaxOps
    /\ CanRead(n)
    /\ started' = started + 1
    /\ IF containers[n] # NoHandle
       THEN /\ Returned
            /\ ev' = Event(t, "create", "idle", n, "none", NoName, "ok")
       ELSE /\ Begin(t, "create", n, "fetch")
            /\ ev' = Event(t, "create", "idle", n, "none", NoName, "none")
    /\ UNCHANGED <<containers, runtime, held, ret, deleted, registered>>
    /\ SigUnchanged

\* lib.rs 62-64, container.rs 45-90: fetch, unpack, the monitor's spawn, the ready
\* byte and the monitor's exit, taken as one step: none of them reads or writes
\* anything another task or the runtime can see.  Either all succeed or the
\* first failure is returned.
Prepare(t, ok) == LocalStep(t, "fetch", "getpid", ok)

\* lib.rs 62, image.rs 20-58: `skopeo copy`.
Fetch(t, ok) == LocalStep(t, "fetch", "unpack", ok)

\* lib.rs 63, image.rs 83-125: `umoci unpack`.
Unpack(t, ok) == LocalStep(t, "unpack", "spawn", ok)

\* container.rs 45-65: the two pipes are made and the monitor is spawned.
Spawn(t, ok) == LocalStep(t, "spawn", "ready", ok)

\* Ready that returns the error of a failed write at once.
ReadyReturnsOnFailure(t, ok) ==
    /\ Alive
    /\ pc[t] = "ready"
    /\ IF ok
       THEN /\ Goto(t, "wait")
            /\ UNCHANGED <<held, ret, tdir>>
            /\ ev' = Event(t, op[t], "ready", nm[t], "none", NoName, "none")
       ELSE /\ Return(t)
            /\ ev' = Event(t, op[t], "ready", nm[t], "none", NoName, "err")
    /\ UNCHANGED <<containers, runtime, deleted, registered, baseDirs>>
    /\ CallUnchanged

\* container.rs 68, pipe.rs 144-149: the zero byte on the start pipe; the pipe
\* is consumed by the call and its write end closed when it returns.  A failed
\* write still awaits the monitor's exit (container.rs 69) before returning.
Ready(t, ok) ==
    /\ Alive
    /\ pc[t] = "ready"
    /\ Goto(t, IF ok THEN "wait" ELSE "waitE")
    /\ ev' = Event(t, op[t], "ready", nm[t], "none", NoName, "none")
    /\ UNCHANGED <<containers, runtime, held, ret, deleted, registered, tdir, baseDirs>>
    /\ CallUnchanged

\* What the record of a step says when the step saw the monitor exit, and the
\* error that carries the monitor's stderr (container.rs 73-78, 85-89).
MonitorExited(zero) == IF zero THEN "conmon exited 0" ELSE "conmon exited 1"
MonitorFailed == "err with conmon stderr"

\* Wait that goes on to the sync pipe whatever the monitor's exit status.
WaitIgnoringStatus(t, zero) ==
    /\ Alive
    /\ pc[t] = "wait"
    /\ Goto(t, "getpid")
    /\ ev' = Event(t, op[t], "wait", nm[t], MonitorExited(zero), NoName, "none")
    /\ UNCHANGED <<containers, runtime, held, ret, deleted, registered, tdir, baseDirs>>
    /\ CallUnchanged

\* container.rs 83-90: the monitor's first process has exited; on a non-zero
\* status the error with its stderr is returned.
Wait(t, zero) ==
    /\ Alive
    /\ pc[t] = "wait"
    /\ IF zero
       THEN /\ Goto(t, "getpid")
            /\ ev' = Event(t, op[t], "wait", nm[t], MonitorExited(TRUE), NoName, "none")
            /\ UNCHANGED <<held, ret, tdir>>
       ELSE /\ Return(t)
            /\ ev' = Event(t, op[t], "wait", nm[t], MonitorExited(FALSE), NoName,
                           MonitorFailed)
    /\ UNCHANGED <<containers, runtime, deleted, registered, baseDirs>>
    /\ CallUnchanged

\* container.rs 69-79: after a failed ready write the monitor's exit is awaited
\* and an error is returned whatever the status: the write's error on a zero
\* status, that error with the monitor's stderr on a non-zero one.
WaitAfterFailedReady(t, zero) ==
    /\ Alive
    /\ pc[t] = "waitE"
    /\ Return(t)
    /\ ev' = Event(t, op[t], "waitE", nm[t], MonitorExited(zero), NoName,
                   IF zero THEN "err" ELSE MonitorFailed)
    /\ UNCHANGED <<containers, runtime, deleted, registered, baseDirs>>
    /\ CallUnchanged

\* container.rs 92, pipe.rs 88-110: the line on the sync pipe.  A success line
\* means the monitor had the runtime create the container, which the runtime
\* refuses for an id it already knows; a failure line means no container.
GetPid(t, ok) ==
    /\ Alive
    /\ pc[t] = "getpid"
    /\ ok => runtime[nm[t]] = NoContainer
    /\ IF ok
       THEN /\ runtime' = [runtime EXCEPT ![nm[t]] = [inst |-> Fresh, st |-> "created"]]
            /\ held' = [held EXCEPT ![t] = Fresh]
            /\ Goto(t, "connect")
            /\ ev' = Event(t, op[t], "getpid", nm[t], "none", NoName, "none")
            /\ UNCHANGED <<ret, tdir>>
       ELSE /\ Return(t)
            /\ ev' = Event(t, op[t], "getpid", nm[t], "none", NoName, "err")
            /\ UNCHANGED runtime
    /\ UNCHANGED <<containers, deleted, registered, baseDirs>>
    /\ CallUnchanged

\* Connect after which the handle is inserted without being started.
ConnectThenInsert(t, ok) ==
    /\ Alive
    /\ pc[t] = "connect"
    /\ IF ok
       THEN /\ Goto(t, "insert")
            /\ tdir' = [tdir EXCEPT ![t] = "none"]
            /\ baseDirs' = baseDirs \cup {held[t]}
            /\ ev' = Event(t, op[t], "connect", nm[t], "none", NoName, "none")
            /\ UNCHANGED <<held, ret>>
       ELSE /\ Return(t)
            /\ ev' = Event(t, op[t], "connect", nm[t], "none", NoName, "err")
            /\ UNCHANGED baseDirs
    /\ UNCHANGED <<containers, runtime, deleted, registered>>
    /\ CallUnchanged

\* container.rs 96-109: the console socket.  On success the Container is
\* constructed; on failure the `?` returns before any Container exists, so no
\* Drop runs and the runtime keeps the container; the bundle, still a local of
\* Container::create, is dropped and its base directory removed.
Connect(t, ok) ==
    /\ Alive
    /\ pc[t] = "connect"
    /\ IF ok
       THEN /\ Goto(t, "start")
            /\ tdir' = [tdir EXCEPT ![t] = "none"]
            /\ baseDirs' = baseDirs \cup {held[t]}
            /\ ev' = Event(t, op[t], "connect", nm[t], "none", NoName, "none")
            /\ UNCHANGED <<held, ret>>
       ELSE /\ Return(t)
            /\ ev' = Event(t, op[t], "connect", nm[t], "none", NoName, "err")
            /\ UNCHANGED baseDirs
    /\ UNCHANGED <<containers, runtime, deleted, registered>>
    /\ CallUnchanged

\* Start with the insert made before the start: a failed start leaves the key.
StartAfterInsert(t, ok) ==
    /\ Alive
    /\ pc[t] = "start"
    /\ ok => runtime[nm[t]].st = "created"
    /\ IF ok
       THEN /\ runtime' = [runtime EXCEPT ![nm[t]].st = "running"]
            /\ Goto(t, "insert")
            /\ UNCHANGED <<ret, containers>>
       ELSE /\ Goto(t, "drop")
            /\ ret' = [ret EXCEPT ![t] = "err"]
            /\ containers' = [containers EXCEPT ![nm[t]] = held[t]]
            /\ UNCHANGED runtime
    /\ ev' = Event(t, op[t], "start", nm[t], "start", nm[t], "none")
    /\ UNCHANGED <<held, deleted, registered, tdir, baseDirs>>
    /\ CallUnchanged

\* lib.rs 65, container.rs 114-120: `crun start <id>` starts the container the
\* runtime knows by that id if it is in the created state.  On failure the `?`
\* returns and the Container is dropped (the Drop step).
Start(t, ok) ==
    /\ Alive
    /\ pc[t] = "start"
    /\ ok => runtime[nm[t]].st = "created"
    /\ IF ok
       THEN /\ runtime' = [runtime EXCEPT ![nm[t]].st = "running"]
            /\ Goto(t, "insert")
            /\ UNCHANGED ret
       ELSE /\ Goto(t, "drop")
            /\ ret' = [ret EXCEPT ![t] = "err"]
            /\ UNCHANGED runtime
    /\ ev' = Event(t, op[t], "start", nm[t], "start", nm[t], "none")
    /\ UNCHANGED <<containers, held, deleted, registered, tdir, baseDirs>>
    /\ CallUnchanged

\* lib.rs 67-70: DashMap::insert stores the handle under the name and returns
\* the value it replaced, which is dropped at the end of the statement
\* (container.rs 190-197: `crun delete --force <id>`, status ignored; then its
\* bundle's base directory is removed).
Insert(t, ok) ==
    /\ Alive
    /\ pc[t] = "insert"
    /\ CanWrite(nm[t])
    /\ containers' = [containers EXCEPT ![nm[t]] = held[t]]
    /\ IF containers[nm[t]] # NoHandle
       THEN /\ runtime' = RuntimeDelete(nm[t], ok)
            /\ ev' = Event(t, op[t], "insert", nm[t], "delete", nm[t], "ok")
       ELSE /\ ok
            /\ UNCHANGED runtime
            /\ ev' = Event(t, op[t], "insert", nm[t], "none", NoName, "ok")
    /\ baseDirs' = baseDirs \ {containers[nm[t]]}
    /\ deleted' = deleted \ {nm[t]}
    /\ registered' = registered \cup {nm[t]}
    /\ Return(t)
    /\ CallUnchanged

\* container.rs 190-197: the Container a task owns goes out of scope; the
\* blocking `crun delete --force <id>` runs, its status is ignored, the fields
\* are dropped (the bundle's base directory is removed), and the call returns
\* the result it had.
Drop(t, ok) ==
    /\ Alive
    /\ pc[t] = "drop"
    /\ runtime' = RuntimeDelete(nm[t], ok)
    /\ baseDirs' = baseDirs \ {held[t]}
    /\ ev' = Event(t, op[t], "drop", nm[t], "delete", nm[t], ret[t])
    /\ Return(t)
    /\ UNCHANGED <<containers, deleted, registered>>
    /\ CallUnchanged

\* ------------------------------------- Engine::state / pause / resume
\* Lookup that goes on to the runtime command whether or not the key is there.
LookupUnchecked(t, o, n) ==
    /\ Alive
    /\ pc[t] = "idle"
    /\ started < MaxOps
    /\ CanRead(n)
    /\ started' = started + 1
    /\ Begin(t, o, n, "borrow")
    /\ ev' = Event(t, o, "idle", n, "none", NoName, "none")
    /\ UNCHANGED <<containers, runtime, held, ret, deleted, registered>>
    /\ SigUnchanged

\* lib.rs 78, 91, 104: DashMap::get, made when the call is first polled.  A hit
\* keeps the Ref (the shard's read lock) for the runtime command that follows.
Lookup(t, o, n) ==
    /\ Alive
    /\ pc[t] = "idle"
    /\ started < MaxOps
    /\ CanRead(n)
    /\ started' = started + 1
    /\ IF containers[n] = NoHandle
       THEN /\ Returned
            /\ ev' = Event(t, o, "idle", n, "none", n, "notfound")
       ELSE /\ Begin(t, o, n, "borrow")
            /\ ev' = Event(t, o, "idle", n, "none", NoName, "none")
    /\ UNCHANGED <<containers, runtime, held, ret, deleted, registered>>
    /\ SigUnchanged

\* What `crun pause|resume|state <id>` needs of the runtime to succeed.
RuntimeAccepts(cmd, n) ==
    CASE cmd = "pause" -> runtime[n].st = "running"
      [] cmd = "resume" -> runtime[n].st = "paused"
      [] OTHER -> runtime[n] # NoContainer

\* ... and what it does to the container.
RuntimeApply(cmd, n) ==
    CASE cmd = "pause" -> [runtime EXCEPT ![n].st = "paused"]
      [] cmd = "resume" -> [runtime EXCEPT ![n].st = "running"]
      [] OTHER -> runtime

\* lib.rs 79, 92, 105; container.rs 124-165: the runtime command on the borrowed
\* handle; the Ref is released when the call returns.  A failed `state` falls
\* back to the exit file (container.rs 161, 168-187): `exitFile` says it is there.
Exec(t, ok, exitFile) ==
    /\ Alive
    /\ pc[t] = "borrow"
    /\ ok => RuntimeAccepts(op[t], nm[t])
    /\ runtime' = IF ok THEN RuntimeApply(op[t], nm[t]) ELSE runtime
    /\ ev' = Event(t, op[t], "borrow", nm[t], op[t], nm[t],
                   IF ok \/ (op[t] = "state" /\ exitFile) THEN "ok" ELSE "err")
    /\ Return(t)
    /\ UNCHANGED <<containers, deleted, registered, baseDirs>>
    /\ CallUnchanged

\* ------------------------------------------------------- Engine::delete
\* Remove that reads the entry (get) instead of taking it out of the map.
RemoveByGet(t, n) ==
    /\ Alive
    /\ pc[t] = "idle"
    /\ started < MaxOps
    /\ CanWrite(n)
    /\ started' = started + 1
    /\ IF containers[n] = NoHandle
       THEN /\ Returned
            /\ UNCHANGED <<held, deleted>>
            /\ ev' = Event(t, "delete", "idle", n, "none", n, "notfound")
       ELSE /\ held' = [held EXCEPT ![t] = containers[n]]
            /\ deleted' = deleted \cup {n}
            /\ Begin(t, "delete", n, "delete")
            /\ ev' = Event(t, "delete", "idle", n, "none", NoName, "none")
    /\ UNCHANGED <<containers, runtime, ret, registered>>
    /\ SigUnchanged

\* Remove that leaves the key in the map with the handle given away.
RemoveLeavesKey(t, n) == RemoveByGet(t, n)

\* lib.rs 115-118: DashMap::remove, made when the call is first polled: the entry
\* leaves the map and the task owns the handle.
Remove(t, n) ==
    /\ Alive
    /\ pc[t] = "idle"
    /\ started < MaxOps
    /\ CanWrite(n)
    /\ started' = started + 1
    /\ IF containers[n] = NoHandle
       THEN /\ Returned
            /\ UNCHANGED <<containers, held, deleted, registered>>
            /\ ev' = Event(t, "delete", "idle", n, "none", n, "notfound")
       ELSE /\ containers' = [containers EXCEPT ![n] = NoHandle]
            /\ held' = [held EXCEPT ![t] = containers[n]]
            /\ deleted' = deleted \cup {n}
            /\ Begin(t, "delete", n, "delete")
            /\ ev' = Event(t, "delete", "idle", n, "none", NoName, "none")
    /\ UNCHANGED <<runtime, ret, registered>>
    /\ SigUnchanged

\* DeleteExec that returns a failure at once and forgets the handle.
DeleteExecLeaksOnError(t, ok) ==
    /\ Alive
    /\ pc[t] = "delete"
    /\ runtime' = RuntimeDelete(nm[t], ok)
    /\ IF ok
       THEN /\ ret' = [ret EXCEPT ![t] = "ok"]
            /\ Goto(t, "drop")
            /\ ev' = Event(t, op[t], "delete", nm[t], "delete", nm[t], "none")
            /\ UNCHANGED <<held, tdir>>
       ELSE /\ Return(t)
            /\ ev' = Event(t, op[t], "delete", nm[t], "delete", nm[t], "err")
    /\ UNCHANGED <<containers, deleted, registered, baseDirs>>
    /\ CallUnchanged

\* lib.rs 116, container.rs 144-150: the consuming delete runs
\* `crun delete --force <id>`; the handle is dropped when it returns (Drop).
DeleteExec(t, ok) ==
    /\ Alive
    /\ pc[t] = "delete"
    /\ runtime' = RuntimeDelete(nm[t], ok)
    /\ ret' = [ret EXCEPT ![t] = IF ok THEN "ok" ELSE "err"]
    /\ Goto(t, "drop")
    /\ ev' = Event(t, op[t], "delete", nm[t], "delete", nm[t], "none")
    /\ UNCHANGED <<containers, held, deleted, registered, tdir, baseDirs>>
    /\ CallUnchanged

\* ------------------------------------------- the interrupt task (Engine::new)
RequestsUnchanged ==
    UNCHANGED <<pc, op, nm, held, ret, started, deleted, registered, shardOf, tdir,
                call>>

TasksUnchanged == RequestsUnchanged /\ UNCHANGED dropping

\* lib.rs 40: ctrl_c() resolves; clear() is about to run.
Signal ==
    /\ sig = "waiting"
    /\ sig' = "clearing"
    /\ ci' = 1
    /\ atSignal' = containers
    /\ ev' = Event(SigTask, "interrupt", "waiting", NoName, "none", NoName, "none")
    /\ UNCHANGED <<containers, runtime, exitCode, baseDirs>>
    /\ TasksUnchanged

\* lib.rs 41: clear() takes the write lock of the next shard, which waits for
\* every Ref into that shard to be released.
ClearLock ==
    /\ sig = "clearing"
    /\ ci \in Shards
    /\ Readers(ci) = {}
    /\ sig' = "dropping"
    /\ ev' = Event(SigTask, "interrupt", "clearing", NoName, "none", NoName, "none")
    /\ UNCHANGED <<containers, runtime, ci, exitCode, atSignal, baseDirs>>
    /\ TasksUnchanged

\* lib.rs 41, container.rs 190-197: an entry of the locked shard is dropped:
\* `crun delete --force <id>` runs to completion, its status is ignored.
ClearDrop(n, ok) ==
    /\ sig = "dropping"
    /\ shardOf[n] = ci
    /\ containers[n] # NoHandle
    /\ containers' = [containers EXCEPT ![n] = NoHandle]
    /\ runtime' = RuntimeDelete(n, ok)
    /\ baseDirs' = baseDirs \ {containers[n]}
    /\ ev' = Event(SigTask, "interrupt", "dropping", NoName, "delete", n, "none")
    /\ UNCHANGED <<sig, ci, exitCode, atSignal>>
    /\ TasksUnchanged

\* ClearUnlock after which clear() takes the same shard again.
ClearUnlockKeepsShard ==
    /\ sig = "dropping"
    /\ dropping = NoHandle
    /\ \A n \in Names : shardOf[n] = ci => containers[n] = NoHandle
    /\ sig' = "clearing"
    /\ ev' = Event(SigTask, "interrupt", "dropping", NoName, "none", NoName, "none")
    /\ UNCHANGED <<containers, runtime, ci, exitCode, atSignal, baseDirs>>
    /\ TasksUnchanged

\* lib.rs 41: the shard is empty; its lock is released and clear() moves on.
ClearUnlock ==
    /\ sig = "dropping"
    /\ dropping = NoHandle
    /\ \A n \in Names : shardOf[n] = ci => containers[n] = NoHandle
    /\ sig' = "clearing"
    /\ ci' = ci + 1
    /\ ev' = Event(SigTask, "interrupt", "dropping", NoName, "none", NoName, "none")
    /\ UNCHANGED <<containers, runtime, exitCode, atSignal, baseDirs>>
    /\ TasksUnchanged

\* Exit that does not wait for clear() to return.
ExitDuringClear ==
    /\ sig = "clearing"
    /\ sig' = "exited"
    /\ exitCode' = EXIT_CODE
    /\ ev' = Event(SigTask, "interrupt", "clearing", NoName, "none", NoName, "none")
    /\ UNCHANGED <<containers, runtime, ci, atSignal, baseDirs>>
    /\ TasksUnchanged

\* lib.rs 42: clear() has returned; std::process::exit(130).  No destructor of
\* any task runs: what the calls in flight own stays as it is.
Exit ==
    /\ sig = "clearing"
    /\ ci \notin Shards
    /\ sig' = "exited"
    /\ exitCode' = EXIT_CODE
    /\ ev' = Event(SigTask, "interrupt", "clearing", NoName, "none", NoName, "none")
    /\ UNCHANGED <<containers, runtime, ci, atSignal, baseDirs>>
    /\ TasksUnchanged

\* ------------------------------------------------------ the specification
\* Every step in which `crun delete --force` does what it is asked.
Reliable ==
    \/ \E t \in Tasks, n \in Names : CreateCheck(t, n)
    \/ \E t \in Tasks, ok \in BOOLEAN : Prepare(t, ok)
    \/ \E t \in Tasks, ok \in BOOLEAN : GetPid(t, ok)
    \/ \E t \in Tasks, ok \in BOOLEAN : Connect(t, ok)
    \/ \E t \in Tasks, ok \in BOOLEAN : Start(t, ok)
    \/ \E t \in Tasks : Insert(t, TRUE)
    \/ \E t \in Tasks : Drop(t, TRUE)
    \/ \E t \in Tasks, o \in {"state", "pause", "resume"}, n \in Names : Lookup(t, o, n)
    \/ \E t \in Tasks, ok \in BOOLEAN, exitFile \in BOOLEAN : Exec(t, ok, exitFile)
    \/ \E t \in Tasks, n \in Names : Remove(t, n)
    \/ \E t \in Tasks : DeleteExec(t, TRUE)
    \/ Signal
    \/ ClearLock
    \/ \E n \in Names : ClearDrop(n, TRUE)
    \/ ClearUnlock
    \/ Exit

\* The steps in which `crun delete --force` fails and changes nothing.
DeleteFails ==
    \/ \E t \in Tasks : Insert(t, FALSE)
    \/ \E t \in Tasks : Drop(t, FALSE)
    \/ \E t \in Tasks : DeleteExec(t, FALSE)
    \/ \E n \in Names : ClearDrop(n, FALSE)

Next == Reliable \/ DeleteFails

Spec == Init /\ [][Next]_vars

\* The engine against a runtime whose forced delete never fails.
ReliableSpec == Init /\ [][Reliable]_vars

\* --------------------------------------------------------- fair scheduling
\* Every external command terminates: a call that holds a Ref across the await
\* of a runtime command (lib.rs 78-79, 91-92, 104-105) is polled again and lets
\* go of it.  The interrupt task (lib.rs 38-44) is scheduled: when clear() can
\* take a shard's lock it does, each drop's blocking command returns, and
\* std::process::exit is reached.
Fairness ==
    /\ \A t \in 1..NumTasks :
          WF_vars(\E ok \in BOOLEAN, exitFile \in BOOLEAN : Exec(t, ok, exitFile))
    /\ WF_vars(ClearLock)
    /\ WF_vars(\E n \in Names, ok \in BOOLEAN : ClearDrop(n, ok))
    /\ WF_vars(ClearUnlock)
    /\ WF_vars(Exit)

FairSpec == Init /\ [][Next]_vars /\ Fairness

\* ------------------------------------------- a release, step by step
\* container.rs 190-197 and image.rs 66-80, taken apart: the drop of a
\* Container first runs the body of Drop::drop, the blocking
\* `crun delete --force <id>` whose status is ignored, and then drops the
\* fields, among them the bundle whose temporary base directory is removed.

\* A drop that removes the base directory and leaves the runtime alone.
DropFieldsOnly(t, ok) ==
    /\ Alive
    /\ pc[t] = "drop"
    /\ baseDirs' = baseDirs \ {held[t]}
    /\ Goto(t, "fields")
    /\ ev' = Event(t, op[t], "drop", nm[t], "none", NoName, "none")
    /\ UNCHANGED <<containers, runtime, held, ret, deleted, registered, tdir>>
    /\ CallUnchanged

\* container.rs 190-197: the Container a task owns goes out of scope and
\* Drop::drop runs `crun delete --force <id>` to completion.
DropDelete(t, ok) ==
    /\ Alive
    /\ pc[t] = "drop"
    /\ runtime' = RuntimeDelete(nm[t], ok)
    /\ Goto(t, "fields")
    /\ ev' = Event(t, op[t], "drop", nm[t], "delete", nm[t], "none")
    /\ UNCHANGED <<containers, held, ret, deleted, registered, tdir, baseDirs>>
    /\ CallUnchanged

\* image.rs 66-80: the fields of the dropped Container go; the bundle's base
\* directory is removed and the call returns the result it had.
DropFields(t) ==
    /\ Alive
    /\ pc[t] = "fields"
    /\ baseDirs' = baseDirs \ {held[t]}
    /\ ev' = Event(t, op[t], "fields", nm[t], "none", NoName, ret[t])
    /\ Return(t)
    /\ UNCHANGED <<containers, runtime, deleted, registered>>
    /\ CallUnchanged

\* lib.rs 67-70: the insert; a value it replaced is returned and dropped at the
\* end of the statement, Drop::drop first.
InsertDelete(t, ok) ==
    /\ Alive
    /\ pc[t] = "insert"
    /\ CanWrite(nm[t])
    /\ containers' = [containers EXCEPT ![nm[t]] = held[t]]
    /\ deleted' = deleted \ {nm[t]}
    /\ registered' = registered \cup {nm[t]}
    /\ IF containers[nm[t]] # NoHandle
       THEN /\ runtime' = RuntimeDelete(nm[t], ok)
            /\ held' = [held EXCEPT ![t] = containers[nm[t]]]
            /\ ret' = [ret EXCEPT ![t] = "ok"]
            /\ Goto(t, "fields")
            /\ ev' = Event(t, op[t], "insert", nm[t], "delete", nm[t], "none")
            /\ UNCHANGED tdir
       ELSE /\ ok
            /\ UNCHANGED runtime
            /\ ev' = Event(t, op[t], "insert", nm[t], "none", NoName, "ok")
            /\ Return(t)
    /\ UNCHANGED baseDirs
    /\ CallUnchanged

\* lib.rs 41, container.rs 190-197: clear() drops an entry of the locked
\* shard: Drop::drop runs `crun delete --force <id>` to completion.
ClearDelete(n, ok) ==
    /\ sig = "dropping"
    /\ dropping = NoHandle
    /\ shardOf[n] = ci
    /\ containers[n] # NoHandle
    /\ containers' = [containers EXCEPT ![n] = NoHandle]
    /\ dropping' = containers[n]
    /\ runtime' = RuntimeDelete(n, ok)
    /\ ev' = Event(SigTask, "interrupt", "dropping", NoName, "delete", n, "none")
    /\ UNCHANGED <<sig, ci, exitCode, atSignal, baseDirs>>
    /\ RequestsUnchanged

\* lib.rs 41, image.rs 66-80: the fields of the entry being dropped go; the
\* bundle's base directory is removed.
ClearFields ==
    /\ sig = "dropping"
    /\ dropping # NoHandle
    /\ dropping' = NoHandle
    /\ baseDirs' = baseDirs \ {dropping}
    /\ ev' = Event(SigTask, "interrupt", "fields", NoName, "none", NoName, "none")
    /\ UNCHANGED <<containers, runtime, sig, ci, exitCode, atSignal>>
    /\ RequestsUnchanged

\* The engine with every release taken in its two steps.
Release ==
    \/ \E t \in Tasks, n \in Names : CreateCheck(t, n)
    \/ \E t \in Tasks, ok \in BOOLEAN : Prepare(t, ok)
    \/ \E t \in Tasks, ok \in BOOLEAN : GetPid(t, ok)
    \/ \E t \in Tasks, ok \in BOOLEAN : Connect(t, ok)
    \/ \E t \in Tasks, ok \in BOOLEAN : Start(t, ok)
    \/ \E t \in Tasks, ok \in BOOLEAN : InsertDelete(t, ok)
    \/ \E t \in Tasks, ok \in BOOLEAN : DropDelete(t, ok)
    \/ \E t \in Tasks : DropFields(t)
    \/ \E t \in Tasks, o \in {"state", "pause", "resume"}, n \in Names : Lookup(t, o, n)
    \/ \E t \in Tasks, ok \in BOOLEAN, exitFile \in BOOLEAN : Exec(t, ok, exitFile)
    \/ \E t \in Tasks, n \in Names : Remove(t, n)
    \/ \E t \in Tasks, ok \in BOOLEAN : DeleteExec(t, ok)
    \/ Signal
    \/ ClearLock
    \/ \E n \in Names, ok \in BOOLEAN : ClearDelete(n, ok)
    \/ ClearFields
    \/ ClearUnlock
    \/ Exit

ReleaseSpec == Init /\ [][Release]_vars

\* The engine with every step of create taken on its own.
Handshake ==
    \/ \E t \in Tasks, n \in Names : CreateCheck(t, n)
    \/ \E t \in Tasks, ok \in BOOLEAN : Fetch(t, ok)
    \/ \E t \in Tasks, ok \in BOOLEAN : Unpack(t, ok)
    \/ \E t \in Tasks, ok \in BOOLEAN : Spawn(t, ok)
    \/ \E t \in Tasks, ok \in BOOLEAN : Ready(t, ok)
    \/ \E t \in Tasks, zero \in BOOLEAN : Wait(t, zero)
    \/ \E t \in Tasks, zero \in BOOLEAN : WaitAfterFailedReady(t, zero)
    \/ \E t \in Tasks, ok \in BOOLEAN : GetPid(t, ok)
    \/ \E t \in Tasks, ok \in BOOLEAN : Connect(t, ok)
    \/ \E t \in Tasks, ok \in BOOLEAN : Start(t, ok)
    \/ \E t \in Tasks : Insert(t, TRUE)
    \/ \E t \in Tasks : Drop(t, TRUE)
    \/ \E t \in Tasks, o \in {"state", "pause", "resume"}, n \in Names : Lookup(t, o, n)
    \/ \E t \in Tasks, ok \in BOOLEAN, exitFile \in BOOLEAN : Exec(t, ok, exitFile)
    \/ \E t \in Tasks, n \in Names : Remove(t, n)
    \/ \E t \in Tasks : DeleteExec(t, TRUE)
    \/ Signal
    \/ ClearLock
    \/ \E n \in Names : ClearDrop(n, TRUE)
    \/ ClearUnlock
    \/ Exit

HandshakeSpec == Init /\ [][Handshake]_vars

\* ================================================= functions on their own
\* What the engine's state is to a function called on its own: untouched.
EngineUnchanged ==
    UNCHANGED <<containers, shardOf, runtime, pc, op, nm, held, ret, sig, ci,
                exitCode, started, ev, deleted, registered, atSignal, tdir, baseDirs,
                dropping>>

\* An optional value: <<>> when absent, <<v>> when present.
None == <<>>
Some(v) == <<v>>

\* anyhow::Result: Ok(value) or Err(error).
Ok(v) == [ok |-> TRUE, val |-> v]
Err(e) == [ok |-> FALSE, err |-> e]

\* An error: what it says (`kind`), the container id it names and the text or
\* path it quotes.
Error(kind, id, detail) == [kind |-> kind, id |-> id, detail |-> detail]

\* -------------------------------------------------- Container::state
\* container.rs 233-241, 219-225: a State; `pid` and `exit_code` are the fields of
\* the status variants that have them.
State(id, status, pid, exit_code, bundle) ==
    [id |-> id, status |-> status, pid |-> pid, exit_code |-> exit_code,
     bundle |-> bundle]

\* The characters a text is made of here, and the texts of up to MaxText
\* characters.
Chars == {"0", "7", "-", " "}
MaxText == 2
Texts == UNION {[1..k -> Chars] : k \in 0..MaxText}

IsDigit(c) == c \in {"0", "7"}
DigitVal(c) == IF c = "7" THEN 7 ELSE 0

RECURSIVE ParseDigits(_, _)
ParseDigits(s, acc) ==
    IF s = <<>> THEN Some(acc)
    ELSE IF ~IsDigit(Head(s)) THEN None
    ELSE ParseDigits(Tail(s), 10 * acc + DigitVal(Head(s)))

\* container.rs 180: str::parse::<i64>: an optional sign, then one or more
\* digits and nothing else.
ParseI64(s) ==
    IF s = <<>> THEN None
    ELSE IF Head(s) = "-"
         THEN IF Len(s) = 1 \/ ParseDigits(Tail(s), 0) = None THEN None
              ELSE Some(0 - ParseDigits(Tail(s), 0)[1])
         ELSE ParseDigits(s, 0)

\* The directories of a handle's bundle (image.rs 88-92).
BaseDirs == {"/tmp/a", "/tmp/b"}
BundleDir(base) == <<base, "bundle">>
ExitFile(base) == <<base, "exits", "exit">>

\* ParseState that refuses an object with a field its variant does not have.
ParseStateStrict(j) ==
    CASE j.status = "creating" /\ j.pid = None /\ j.exit_code = None ->
            Ok(State(j.id, "creating", None, None, j.bundle))
      [] j.status \in {"created", "running", "paused"} /\ j.pid # None
            /\ j.exit_code = None ->
            Ok(State(j.id, j.status, j.pid, None, j.bundle))
      [] j.status = "stopped" /\ j.exit_code # None /\ j.pid = None ->
            Ok(State(j.id, "stopped", None, j.exit_code, j.bundle))
      [] OTHER -> Err(Error("unknown field", j.id, <<>>))

\* container.rs 160, 217-241: serde's reading of the runtime's reply: the tag
\* `status` picks the variant, whose own field must be there.
ParseState(j) ==
    CASE j.status = "creating" ->
            Ok(State(j.id, "creating", None, None, j.bundle))
      [] j.status \in {"created", "running", "paused"} ->
            IF j.pid = None THEN Err(Error("missing field pid", j.id, <<>>))
            ELSE Ok(State(j.id, j.status, j.pid, None, j.bundle))
      [] j.status = "stopped" ->
            IF j.exit_code = None
            THEN Err(Error("missing field exit_code", j.id, <<>>))
            ELSE Ok(State(j.id, "stopped", None, j.exit_code, j.bundle))
      [] OTHER -> Err(Error("unknown variant", j.id, <<j.status>>))

\* container.rs 168-187: the fallback; `file` is the exit file's text, if there.
ReadStateFromExitFile(self, file) ==
    IF file = None
    THEN Err(Error("exit file doesn't exist", self.id, ExitFile(self.base)))
    ELSE IF ParseI64(file[1]) = None
         THEN Err(Error("invalid digit found in string", self.id, <<>>))
         ELSE Ok(State(self.id, "stopped", None, ParseI64(file[1]), BundleDir(self.base)))

\* ContainerState that hands the runtime's error on when there is no exit file.
ContainerStateKeepingError(self, exec, file) ==
    IF exec.ok THEN ParseState(exec.reply)
    ELSE IF file = None THEN Err(exec.err)
    ELSE ReadStateFromExitFile(self, file)

\* ContainerState that prefers the exit file to the runtime's reply.
ContainerStateFileFirst(self, exec, file) ==
    IF file # None THEN ReadStateFromExitFile(self, file)
    ELSE IF exec.ok THEN ParseState(exec.reply)
    ELSE ReadStateFromExitFile(self, file)

\* container.rs 154-165: `exec` is the outcome of `crun state <id>`.
ContainerState(self, exec, file) ==
    IF exec.ok THEN ParseState(exec.reply)
    ELSE ReadStateFromExitFile(self, file)

\* The replies `crun state` may print, and the outcomes of running it
\* (container.rs 199-214).
Replies ==
    [id : Names,
     status : {"creating", "created", "running", "paused", "stopped", "unknown"},
     pid : {None, Some(7)}, exit_code : {None, Some(0)},
     bundle : {BundleDir(b) : b \in BaseDirs}]

NoReply ==
    [id |-> 0, status |-> "none", pid |-> None, exit_code |-> None, bundle |-> <<>>]

ExecOutcomes(id) ==
    {[ok |-> TRUE, reply |-> r, err |-> Error("none", 0, <<>>)] : r \in Replies}
        \cup {[ok |-> FALSE, reply |-> NoReply,
               err |-> Error("crun state returned", id, <<"no such container">>)]}

\* Container::state is called on a handle.
StateCall ==
    /\ call = NoCall
    /\ \E id \in Names, base \in BaseDirs, file \in {None} \cup {Some(x) : x \in Texts} :
          \E exec \in ExecOutcomes(id) :
              LET self == [id |-> id, base |-> base] IN
              call' = [fn |-> "state", self |-> self, exec |-> exec, file |-> file,
                       out |-> ContainerState(self, exec, file)]
    /\ EngineUnchanged

\* ------------------------------------------------ SyncPipe::get_pid
\* A JSON value: null, a number or a string.
JNull == [t |-> "null", n |-> 0, s |-> ""]
JNum(n) == [t |-> "num", n |-> n, s |-> ""]
JStr(s) == [t |-> "str", n |-> 0, s |-> s]

JsonValues == {JNull, JNum(-1), JNum(7), JStr(""), JStr("oci runtime error")}

\* The lines the monitor may write on the sync pipe: a JSON object with or
\* without the fields `pid` and `message`, maybe with another field, or a line
\* that is no JSON object (an empty line at end of file).
SyncLines ==
    [json : {TRUE}, pid : {None} \cup {Some(j) : j \in JsonValues},
     message : {None} \cup {Some(j) : j \in JsonValues}, other : BOOLEAN]
        \cup [json : {FALSE}, pid : {None}, message : {None}, other : {FALSE}]

\* pipe.rs 89-94, 102: serde's untagged enum takes the first variant the object
\* fits, in the order written: Err { pid, message }, then Ok { pid }; a field a
\* variant does not name is skipped.
FitsErr(line) ==
    /\ line.json
    /\ line.pid # None /\ line.pid[1].t = "num"
    /\ line.message # None /\ line.message[1].t = "str"

FitsOk(line) ==
    /\ line.json
    /\ line.pid # None /\ line.pid[1].t = "num"

\* pipe.rs 96-109: the result of get_pid for the line read.
GetPidOf(line) ==
    IF FitsErr(line)
    THEN Err(Error("failed to read container PID from conmon, returned status",
                   line.pid[1].n, <<line.message[1].s>>))
    ELSE IF FitsOk(line) THEN Ok(line.pid[1].n)
    ELSE Err(Error("failed to parse SyncInfo object", 0, <<>>))

GetPidCall ==
    /\ call = NoCall
    /\ \E line \in SyncLines : call' = [fn |-> "get_pid", line |-> line, out |-> GetPidOf(line)]
    /\ EngineUnchanged

\* --------------------------------- OciImage::fetch_from_docker_hub
\* The image specs of up to MaxSpec characters.
SpecChars == {"a", "b", ":"}
MaxSpec == 3
ImageSpecs == UNION {[1..k -> SpecChars] : k \in 0..MaxSpec}

Latest == <<"l", "a", "t", "e", "s", "t">>

\* image.rs 21-23: str::splitn(2, ':'): the text before the first colon and the
\* text after it; the whole text, even an empty one, when there is no colon.
Splitn2(s) ==
    IF \E i \in 1..Len(s) : s[i] = ":"
    THEN LET i == CHOOSE k \in 1..Len(s) : s[k] = ":" /\ \A m \in 1..(k - 1) : s[m] # ":"
         IN <<SubSeq(s, 1, i - 1), SubSeq(s, i + 1, Len(s))>>
    ELSE <<s>>

\* image.rs 20-46: what fetch does with the spec: the error it returns before
\* running anything, or the source `skopeo copy` is run with.
FetchFromDockerHub(spec) ==
    LET segments == Splitn2(spec) IN
    CASE Len(segments) = 1 ->
            [rejected |-> FALSE, skopeo |-> TRUE, name |-> segments[1], tag |-> Latest]
      [] Len(segments) = 2 ->
            [rejected |-> FALSE, skopeo |-> TRUE, name |-> segments[1], tag |-> segments[2]]
      [] OTHER ->
            [rejected |-> TRUE, skopeo |-> FALSE, name |-> <<>>, tag |-> <<>>]

FetchCall ==
    /\ call = NoCall
    /\ \E spec \in ImageSpecs :
          call' = [fn |-> "fetch", spec |-> spec, out |-> FetchFromDockerHub(spec)]
    /\ EngineUnchanged

\* ------------------------------------------------------ the REST gateway
\* The quote characters a message may put around a name.
Backtick == "backtick"
DoubleQuote == "double quote"
NoQuote == "none"

\* A message: its text, with `_` where the quoted name `name` stands.
Message(text, quote, name) == [text |-> text, quote |-> quote, name |-> name]

\* lib.rs 80, 93, 106, 117: the error of a lookup miss.
NotFoundError(n) == Message("container _ does not exist", Backtick, n)

\* The requests: a method, a path (/containers/<name>, /containers/<name>/status
\* or any other) and a body (JSON or not, with or without a `state` and another
\* field).
Methods == {"GET", "PUT", "DELETE", "POST"}
Paths == [kind : {"container", "status", "other"}, name : Names]
Bodies ==
    [json : {TRUE}, state : {None, Some("paused"), Some("running"), Some("frozen"),
                            Some("Paused")}, other : BOOLEAN]
        \cup [json : {FALSE}, state : {None}, other : {FALSE}]
Requests == [method : Methods, path : Paths, body : Bodies]

\* BodyOk that lets fields other than `state` pass.
BodyOkAnyFields(body) ==
    /\ body.json
    /\ body.state \in {Some("paused"), Some("running")}

\* rest.rs 75-91: the body deserializes as Modify: a JSON object with the field
\* `state`, one of the lowercase variant names, and no other field.
BodyOk(body) ==
    /\ body.json
    /\ body.state \in {Some("paused"), Some("running")}
    /\ ~body.other

\* rest.rs 18-70: the four routes in the order they are tried, the method and
\* the path each one takes, and the engine operation its handler calls.
Routes == <<"create", "delete", "modify", "state">>

RouteMethod(r) ==
    CASE r = "create" -> "PUT"
      [] r = "delete" -> "DELETE"
      [] r = "modify" -> "PUT"
      [] OTHER -> "GET"

RoutePath(r) == IF r = "modify" THEN "status" ELSE "container"

\* rest.rs 47-50
EngineOp(r, body) ==
    IF r = "modify"
    THEN (IF body.state = Some("paused") THEN "pause" ELSE "resume")
    ELSE r

\* What a route makes of the request: "call" when its handler runs, or the
\* rejection of the first filter that does not match.
RouteOutcome(r, req) ==
    IF req.method # RouteMethod(r) THEN "method not allowed"
    ELSE IF req.path.kind # RoutePath(r) THEN "not found"
    ELSE IF r = "modify" /\ ~BodyOk(req.body) THEN "body deserialize error"
    ELSE "call"

\* lib.rs 56-119: the result of the engine operation: a lookup miss for state,
\* pause, resume and delete on a name that is not a key, success for create on
\* a name that is one, and otherwise what the commands it runs make of it (`res`).
EngineResult(o, n, res) ==
    IF o # "create" /\ containers[n] = NoHandle THEN Err(NotFoundError(n))
    ELSE IF o = "create" /\ containers[n] # NoHandle THEN Ok(o)
    ELSE IF res = "ok" THEN Ok(o)
    ELSE Err(Message("crun returned an error", NoQuote, n))

\* rest.rs 72: the routes that get to run their handler: a route is tried when
\* every route before it has rejected the request, a handler's error included.
RECURSIVE Invoked(_, _, _)
Invoked(i, req, res) ==
    IF i > Len(Routes) THEN <<>>
    ELSE LET r == Routes[i] IN
         IF RouteOutcome(r, req) # "call" THEN Invoked(i + 1, req, res)
         ELSE LET o == EngineOp(r, req.body) IN
              IF EngineResult(o, req.path.name, res).ok
              THEN <<[op |-> o, name |-> req.path.name]>>
              ELSE <<[op |-> o, name |-> req.path.name]>> \o Invoked(i + 1, req, res)

\* The rejections of the routes, when none has replied.
Rejections(req, res) ==
    {IF RouteOutcome(Routes[i], req) = "call" THEN "engine error"
     ELSE RouteOutcome(Routes[i], req) : i \in 1..Len(Routes)}

Response(status, message) == [status |-> status, code |-> status, message |-> message]

\* handle_rejection that takes an engine error for a missing route.
HandleRejection404(rejs, e) ==
    IF rejs = {"not found"} \/ "engine error" \in rejs
    THEN Response(404, Message("Container not found", NoQuote, 0))
    ELSE IF "body deserialize error" \in rejs
    THEN Response(400, Message("Request body deserialize error", NoQuote, 0))
    ELSE Response(500, Message("UNHANDLED_REJECTION", NoQuote, 0))

\* rest.rs 116-145: `rejs` are the rejections of the routes (the rejection is
\* "not found" only when every route's is), `e` the engine's error if a handler
\* returned one.
HandleRejection(rejs, e) ==
    IF rejs = {"not found"}
    THEN Response(404, Message("Container not found", NoQuote, 0))
    ELSE IF "engine error" \in rejs THEN Response(500, e)
    ELSE IF "body deserialize error" \in rejs
    THEN Response(400, Message("Request body deserialize error", NoQuote, 0))
    ELSE Response(500, Message("UNHANDLED_REJECTION", NoQuote, 0))

\* rest.rs 14-73: the answer to a request.
Respond(req, res) ==
    LET ops == Invoked(1, req, res) IN
    IF ops # <<>> /\ EngineResult(ops[Len(ops)].op, req.path.name, res).ok
    THEN Response(200, Message("", NoQuote, 0))
    ELSE HandleRejection(Rejections(req, res),
                         IF ops = <<>> THEN Message("", NoQuote, 0)
                         ELSE EngineResult(ops[1].op, req.path.name, res).err)

RequestCall ==
    /\ call = NoCall
    /\ \E req \in Requests, res \in {"ok", "err"} :
          call' = [fn |-> "request", req |-> req, invoked |-> Invoked(1, req, res),
                   result |-> IF Invoked(1, req, res) = <<>> THEN Ok("none")
                              ELSE EngineResult(Invoked(1, req, res)[1].op,
                                                req.path.name, res),
                   out |-> Respond(req, res)]
    /\ EngineUnchanged

\* ------------------------------------------- State and Status as JSON
\* container.rs 217-225: the variants of Status and the name each one has on
\* the wire (serde's rename_all = "lowercase").
Variants == {"Creating", "Created", "Running", "Paused", "Stopped"}

Lowercase(v) ==
    CASE v = "Creating" -> "creating"
      [] v = "Created" -> "created"
      [] v = "Running" -> "running"
      [] v = "Paused" -> "paused"
      [] v = "Stopped" -> "stopped"

\* A Status value: the variant and the field it has.
Status(variant, pid, exit_code) ==
    [variant |-> variant, pid |-> pid, exit_code |-> exit_code]

Pids == {0, 7, 168495}
ExitCodes == {-7, 0, 130}

StatusValues ==
    {Status("Creating", None, None)}
        \cup {Status(v, Some(p), None) : v \in {"Created", "Running", "Paused"}, p \in Pids}
        \cup {Status("Stopped", None, Some(c)) : c \in ExitCodes}

\* container.rs 232-241: the State values.
StateValues ==
    [id : Names, status : StatusValues, bundle : {BundleDir(b) : b \in BaseDirs}]

\* EncodeState that writes the variant's name as it is spelt in the source.
EncodeStateVariantNames(v) ==
    [id |-> v.id, status |-> v.status.variant, pid |-> v.status.pid,
     exit_code |-> v.status.exit_code, bundle |-> v.bundle]

\* container.rs 217-218, 232-241 (Serialize): one flat object: `id`, the tag
\* `status`, the variant's own field, `bundle`.
EncodeState(v) ==
    [id |-> v.id, status |-> Lowercase(v.status.variant), pid |-> v.status.pid,
     exit_code |-> v.status.exit_code, bundle |-> v.bundle]

\* container.rs 217-218, 232-241 (Deserialize): the object is read as by
\* ParseState; the tag names the variant.
DecodeState(j) ==
    IF ParseState(j).ok
    THEN LET st == ParseState(j).val IN
         Ok([id |-> st.id,
             status |-> Status(CHOOSE v \in Variants : Lowercase(v) = st.status,
                               st.pid, st.exit_code),
             bundle |-> st.bundle])
    ELSE ParseState(j)

\* A State is written as JSON and read back.
CodecCall ==
    /\ call = NoCall
    /\ \E v \in StateValues :
          call' = [fn |-> "codec", value |-> v, json |-> EncodeState(v),
                   out |-> DecodeState(EncodeState(v))]
    /\ EngineUnchanged

\* The objects a runtime may print as a container's state: as Replies, with
\* the pids and exit codes above.
StateObjects ==
    [id : Names,
     status : {"creating", "created", "running", "paused", "stopped", "unknown"},
     pid : {None} \cup {Some(p) : p \in Pids},
     exit_code : {None} \cup {Some(c) : c \in ExitCodes},
     bundle : {BundleDir(b) : b \in BaseDirs}]

\* A state object is read.
DecodeCall ==
    /\ call = NoCall
    /\ \E j \in StateObjects : call' = [fn |-> "decode", json |-> j, out |-> DecodeState(j)]
    /\ EngineUnchanged

LibNext ==
    \/ StateCall
    \/ GetPidCall
    \/ FetchCall
    \/ RequestCall
    \/ CodecCall
    \/ DecodeCall

\* One function is called on its own, whatever the engine's state.
LibSpec == Init /\ [][LibNext]_vars

\* ================================================================ claims
\* The first poll of the call o(n) by task t: the step's record.
FirstPoll(t, o, n) ==
    /\ pc[t] = "idle"
    /\ ev'.t = t
    /\ ev'.at = "idle"
    /\ ev'.op = o
    /\ ev'.arg = n

Lifecycle == {"state", "pause", "resume", "delete"}

\* C1: create(n) on a name that is already a key returns success at once, runs
\* no external command and changes neither the registry nor the runtime.
C1_CreateIdempotent ==
    [][\A t \in Tasks, n \in Names :
          (FirstPoll(t, "create", n) /\ containers[n] # NoHandle)
              => /\ ev'.ret = "ok"
                 /\ ev'.crun = "none"
                 /\ pc'[t] = "idle"
                 /\ containers' = containers
                 /\ runtime' = runtime
                 /\ held' = held]_vars

\* A second create(n) has just returned success without doing anything.
C1_Witness ==
    /\ ev.op = "create"
    /\ ev.at = "idle"
    /\ ev.ret = "ok"
    /\ containers[ev.arg] # NoHandle
    /\ started >= 2

\* C2: a handle stored under a name is never replaced by another handle: it
\* leaves the registry only by being removed.
C2_NoReplace ==
    [][\A n \in Names :
          containers[n] # NoHandle => containers'[n] \in {containers[n], NoHandle}]_vars

\* A create is about to insert over a key that another create stored meanwhile.
C2_Reached ==
    \E t \in Tasks : pc[t] = "insert" /\ containers[nm[t]] \notin {NoHandle, held[t]}

\* C3: a create that returns an error has not inserted its name: no step of a
\* create call other than the one that returns success changes the registry.
C3_FailedCreateInsertsNothing ==
    [][(ev'.op = "create" /\ ev'.ret # "ok") => containers' = containers]_vars

\* A create failed at start, its handle was dropped, and its name is not a key.
C3_Witness ==
    /\ ev.op = "create"
    /\ ev.ret = "err"
    /\ ev.at = "drop"
    /\ containers[ev.arg] = NoHandle

\* C4: when a create returns an error after the monitor has brought a container
\* up, `crun delete --force <id>` is run for its id in the returning step.
C4_FailedCreateReleases ==
    [][\A t \in Tasks :
          (op[t] = "create" /\ held[t] # NoHandle /\ ev'.t = t /\ ev'.ret = "err")
              => (ev'.crun = "delete" /\ ev'.id = nm[t])]_vars

\* C5: once delete(n) has removed the entry and until a create inserts n again,
\* every state, pause, resume and delete on n returns not-found at once.
C5_NotFoundAfterDelete ==
    [][\A t \in Tasks, n \in Names, o \in Lifecycle :
          (FirstPoll(t, o, n) /\ n \in deleted)
              => (ev'.ret = "notfound" /\ pc'[t] = "idle")]_vars

\* A state call on a deleted name has just returned not-found.
C5_Witness ==
    /\ ev.op = "state"
    /\ ev.ret = "notfound"
    /\ ev.arg \in deleted
    /\ runtime[ev.arg] = NoContainer

\* C6: a lifecycle call on a name that is not a key returns a not-found error
\* that names it, runs no runtime command and leaves registry and runtime alone.
C6_NotFound ==
    [][\A t \in Tasks, n \in Names, o \in Lifecycle :
          (FirstPoll(t, o, n) /\ containers[n] = NoHandle)
              => /\ ev'.ret = "notfound"
                 /\ ev'.id = n
                 /\ ev'.crun = "none"
                 /\ pc'[t] = "idle"
                 /\ held' = held
                 /\ containers' = containers
                 /\ runtime' = runtime]_vars

\* A pause on a name that was never a key has just returned not-found.
C6_Witness ==
    /\ ev.op = "pause"
    /\ ev.ret = "notfound"
    /\ ev.id = ev.arg
    /\ ev.arg \notin registered

\* C7: a handle taken by delete belongs to one task only and is no longer in
\* the registry; a delete that has just taken its handle has left no key behind.
C7_RemoveExclusive ==
    /\ \A t \in Tasks :
          (op[t] = "delete" /\ held[t] # NoHandle)
              => /\ \A u \in Tasks \ {t} : held[u] # held[t]
                 /\ \A n \in Names : containers[n] # held[t]
    /\ (ev.op = "delete" /\ ev.at = "idle" /\ ev.ret = "none")
          => (held[ev.t] # NoHandle /\ containers[ev.arg] = NoHandle)

\* Of two deletes of one name in flight together, one holds the handle and the
\* other has just returned not-found.
C7_Witness ==
    \E t \in Tasks :
        /\ op[t] = "delete"
        /\ pc[t] = "delete"
        /\ held[t] # NoHandle
        /\ ev.t # t
        /\ ev.op = "delete"
        /\ ev.arg = nm[t]
        /\ ev.ret = "notfound"

\* C8: every entry the interrupt's clear takes out of the registry has
\* `crun delete --force <id>` run for it in that step, before the exit; the
\* exit comes only when no handle of the registry as it was at the interrupt is
\* left in it, and its code is 130.
C8_InterruptClearsThenExits ==
    [][/\ \A n \in Names :
            (ev'.t = SigTask /\ containers[n] # NoHandle /\ containers'[n] # containers[n])
                => /\ containers'[n] = NoHandle
                   /\ ev'.crun = "delete"
                   /\ ev'.id = n
                   /\ sig' # "exited"
       /\ (sig # "exited" /\ sig' = "exited")
            => /\ exitCode' = 130
               /\ \A n \in Names :
                     atSignal[n] # NoHandle => containers[n] # atSignal[n]]_vars

\* The process has exited after an interrupt that found containers registered.
C8_Witness ==
    /\ sig = "exited"
    /\ exitCode = 130
    /\ \A n \in Names : atSignal[n] # NoHandle

\* C9: every handle in the registry is the handle of the container the runtime
\* knows by that name.
C9_HandleKnownToRuntime ==
    \A n \in Names : containers[n] # NoHandle => runtime[n].inst = containers[n]

\* C10: once the process has exited after the clear, the runtime knows no
\* container under a name that was ever a key of the registry (a name whose
\* `crun delete --force` was still running at the exit is given the benefit of
\* the doubt: that command outlives the engine).
C10_NothingLeftAfterClear ==
    sig = "exited" =>
        \A n \in registered :
            \/ runtime[n] = NoContainer
            \/ \E t \in Tasks : pc[t] = "delete" /\ nm[t] = n

\* C11: when the engine has exited, no temporary directory of a create call that
\* was in flight at the exit is left: neither the fetched image or the bundle
\* the call still owns, nor the base directory of the handle it has built.
C11_NoTempDirAtExit ==
    sig = "exited" =>
        \A t \in Tasks :
            op[t] = "create" => (tdir[t] = "none" /\ held[t] \notin baseDirs)

\* C12: while a state, pause or resume call holds a handle by reference, the
\* handle stays in the registry under its name and no task owns it: no
\* Engine::delete takes it, no insert replaces it, and the interrupt's clear
\* neither removes it nor runs `crun delete --force` for its name.
C12_BorrowExcludesRelease ==
    [][\A t \in Tasks :
          pc[t] = "borrow"
              => /\ containers[nm[t]] # NoHandle
                 /\ containers'[nm[t]] = containers[nm[t]]
                 /\ \A u \in Tasks : held'[u] # containers[nm[t]]
                 /\ containers[nm[t]] \in baseDirs'
                 /\ ev'.t = SigTask => ~(ev'.crun = "delete" /\ ev'.id = nm[t])
                 /\ \A u \in Tasks :
                       FirstPoll(u, "delete", nm[t]) => ev'.ret = "notfound"]_vars

\* A runtime command on a borrowed handle is in flight while the interrupt's
\* clear has reached the handle's shard and waits for its lock.
C12_Witness ==
    \E t \in Tasks :
        /\ pc[t] = "borrow"
        /\ containers[nm[t]] # NoHandle
        /\ sig = "clearing"
        /\ ci = shardOf[nm[t]]

\* C13: a call on one name is never kept waiting by calls in flight on other
\* names only: a create that has reached its insert can make it, and a delete
\* can make its remove.
C13_DistinctNamesNeverBlock ==
    /\ \A t \in Tasks :
          (/\ sig = "waiting"
           /\ pc[t] = "insert"
           /\ \A u \in Tasks \ {t} : pc[u] # "idle" => nm[u] # nm[t])
              => ENABLED Insert(t, TRUE)
    /\ \A t \in Tasks, n \in Names :
          (/\ sig = "waiting"
           /\ pc[t] = "idle"
           /\ started < MaxOps
           /\ \A u \in Tasks \ {t} : pc[u] # "idle" => nm[u] # n)
              => ENABLED Remove(t, n)

\* C14: when `crun state <id>` succeeds, the result of Container::state is what
\* the reply parses to (a State with the reply's id, status and bundle, or the
\* parse error) and never comes from the exit file; when the command fails and
\* the exit file holds an exit code, the result is the State with the handle's
\* id, status Stopped with that exit code, and the handle's bundle directory.
C14_StateResult ==
    call.fn = "state" =>
        /\ call.exec.ok =>
              /\ call.out = ParseState(call.exec.reply)
              /\ call.out.ok =>
                    /\ call.out.val.id = call.exec.reply.id
                    /\ call.out.val.status = call.exec.reply.status
                    /\ call.out.val.bundle = call.exec.reply.bundle
        /\ (~call.exec.ok /\ call.file # None /\ ParseI64(call.file[1]) # None) =>
              /\ call.out.ok
              /\ call.out.val.id = call.self.id
              /\ call.out.val.status = "stopped"
              /\ call.out.val.exit_code = ParseI64(call.file[1])
              /\ call.out.val.bundle = <<call.self.base, "bundle">>

\* The runtime does not know the container of handle 1 any more, the exit file
\* says -7: the state is Stopped with exit code -7 and the handle's bundle.
C14_Witness ==
    /\ call.fn = "state"
    /\ ~call.exec.ok
    /\ call.file = Some(<<"-", "7">>)
    /\ call.self = [id |-> 1, base |-> "/tmp/b"]
    /\ call.out = Ok(State(1, "stopped", None, Some(-7), <<"/tmp/b", "bundle">>))

\* C15 as stated: when `crun state <id>` fails and there is no exit file,
\* Container::state returns the error of the failed command.
C15_OriginalError ==
    (call.fn = "state" /\ ~call.exec.ok /\ call.file = None)
        => call.out = Err(call.exec.err)

\* C15 as the code has it: when `crun state <id>` fails and there is no exit
\* file, Container::state returns an error that says the exit file does not
\* exist, with the handle's id and the file's path; the command's own error is
\* not part of it.
C15_ExitFileMissingError ==
    (call.fn = "state" /\ ~call.exec.ok /\ call.file = None)
        => /\ ~call.out.ok
           /\ call.out.err.kind = "exit file doesn't exist"
           /\ call.out.err.id = call.self.id
           /\ call.out.err.detail = <<call.self.base, "exits", "exit">>
           /\ call.out.err # call.exec.err

\* The command failed, there is no exit file, and state returned an error.
C15_Witness ==
    /\ call.fn = "state"
    /\ ~call.exec.ok
    /\ call.file = None
    /\ ~call.out.ok

\* C16: get_pid goes by the presence of `message` alone: a line with a pid and
\* no `message` gives that pid; a line with a pid and a `message` gives an error
\* that carries the pid and the message; no line with a `message` gives success.
C16_ByPresenceOfMessage ==
    (call.fn = "get_pid" /\ call.line.json) =>
        /\ (call.line.message = None /\ FitsOk(call.line))
              => call.out = Ok(call.line.pid[1].n)
        /\ (call.line.message # None /\ FitsOk(call.line))
              => /\ ~call.out.ok
                 /\ call.out.err.id = call.line.pid[1].n
        /\ call.line.message # None => ~call.out.ok

\* C17: fetch splits the spec at its first colon into name and tag, gives a
\* spec without a colon the tag `latest`, and rejects the empty spec without
\* running any tool.
C17_SpecParsing ==
    call.fn = "fetch" =>
        /\ (\E i \in 1..Len(call.spec) : call.spec[i] = ":")
              => /\ call.out.name \o <<":">> \o call.out.tag = call.spec
                 /\ \A i \in 1..Len(call.out.name) : call.out.name[i] # ":"
        /\ (call.spec # <<>> /\ \A i \in 1..Len(call.spec) : call.spec[i] # ":")
              => /\ call.out.name = call.spec
                 /\ call.out.tag = <<"l", "a", "t", "e", "s", "t">>
        /\ call.spec = <<>> => (call.out.rejected /\ ~call.out.skopeo)

\* C18: PUT /containers/<name>/status with the body {"state":"paused"} calls
\* pause(name) and nothing else, with {"state":"running"} resume(name) and
\* nothing else; with any other body (another state value, a field besides
\* `state`, no `state`, no JSON) it is answered 400 and calls nothing.
C18_ModifyRoute ==
    (call.fn = "request" /\ call.req.method = "PUT" /\ call.req.path.kind = "status") =>
        LET body == call.req.body
            wellFormed == body.json /\ ~body.other
        IN /\ (wellFormed /\ body.state = <<"paused">>)
                 => call.invoked = <<[op |-> "pause", name |-> call.req.path.name]>>
           /\ (wellFormed /\ body.state = <<"running">>)
                 => call.invoked = <<[op |-> "resume", name |-> call.req.path.name]>>
           /\ ~(wellFormed /\ body.state \in {<<"paused">>, <<"running">>})
                 => (call.out.status = 400 /\ call.invoked = <<>>)

\* PUT /containers/1/status with {"state":"frozen"} was answered 400.
C18_Witness ==
    /\ call.fn = "request"
    /\ call.req.method = "PUT"
    /\ call.req.path = [kind |-> "status", name |-> 1]
    /\ call.req.body = [json |-> TRUE, state |-> <<"frozen">>, other |-> FALSE]
    /\ call.out.status = 400
    /\ call.invoked = <<>>

\* C19 as stated: an engine error is answered with status 500 and the body
\* {code: 500, message: the error}; GET /containers/<name> for a name that is
\* not a key is answered 500 with the message `container "<name>" does not
\* exist`, the name in double quotes.
C19_AsStated ==
    call.fn = "request" =>
        /\ ~call.result.ok
              => (call.out.status = 500 /\ call.out.code = 500
                  /\ call.out.message = call.result.err)
        /\ (/\ call.req.method = "GET"
            /\ call.req.path.kind = "container"
            /\ containers[call.req.path.name] = NoHandle)
              => /\ call.out.status = 500
                 /\ call.out.message =
                       [text |-> "container _ does not exist", quote |-> "double quote",
                        name |-> call.req.path.name]

\* C19 as the code has it: the same, the name in the message being put between
\* backticks.
C19_EngineError500 ==
    call.fn = "request" =>
        /\ ~call.result.ok
              => (call.out.status = 500 /\ call.out.code = 500
                  /\ call.out.message = call.result.err)
        /\ (/\ call.req.method = "GET"
            /\ call.req.path.kind = "container"
            /\ containers[call.req.path.name] = NoHandle)
              => /\ call.out.status = 500
                 /\ call.out.message =
                       [text |-> "container _ does not exist", quote |-> "backtick",
                        name |-> call.req.path.name]

\* GET /containers/2, 2 not being a key, was answered 500.
C19_Witness ==
    /\ call.fn = "request"
    /\ call.req.method = "GET"
    /\ call.req.path = [kind |-> "container", name |-> 2]
    /\ containers[2] = NoHandle
    /\ call.invoked = <<[op |-> "state", name |-> 2]>>
    /\ call.out.status = 500

\* C20: a lookup miss of state, pause, resume or delete is answered with
\* status 404.
C20_LookupMiss404 ==
    (/\ call.fn = "request"
     /\ call.invoked # <<>>
     /\ call.invoked[1].op \in Lifecycle \cup {"pause", "resume"}
     /\ containers[call.req.path.name] = NoHandle)
        => call.out.status = 404

\* C21: a State written as JSON and read back is the State it was, for every
\* Status; what is written is one flat object with `id`, `bundle`, the tag
\* `status` in lowercase and the variant's own field (pid or exit_code) and no
\* other.
C21_RoundTrip ==
    call.fn = "codec" =>
        /\ call.out = [ok |-> TRUE, val |-> call.value]
        /\ call.json.id = call.value.id
        /\ call.json.bundle = call.value.bundle
        /\ call.json.status \in {"creating", "created", "running", "paused", "stopped"}
        /\ call.value.status.variant = "Creating"
              => (call.json.status = "creating"
                  /\ call.json.pid = <<>> /\ call.json.exit_code = <<>>)
        /\ call.value.status.variant = "Stopped"
              => (call.json.status = "stopped" /\ call.json.pid = <<>>
                  /\ call.json.exit_code = call.value.status.exit_code)
        /\ call.value.status.variant \in {"Created", "Running", "Paused"}
              => (call.json.pid = call.value.status.pid /\ call.json.exit_code = <<>>)

\* Paused with pid 168495 went through JSON and came back.
C21_Witness ==
    /\ call.fn = "codec"
    /\ call.value.status = [variant |-> "Paused", pid |-> <<168495>>, exit_code |-> <<>>]
    /\ call.json.status = "paused"
    /\ call.out.ok
    /\ call.out.val.status.variant = "Paused"
    /\ call.out.val.status.pid = <<168495>>

\* C22: reading a state object picks the variant by `status` alone and succeeds
\* for each of the five statuses when the variant's own field is there: pid for
\* created, running and paused, exit_code for stopped; a field of another
\* variant is ignored.
C22_DecodeByStatus ==
    call.fn = "decode" =>
        LET j == call.json IN
        /\ j.status = "creating"
              => call.out = [ok |-> TRUE,
                             val |-> [id |-> j.id, bundle |-> j.bundle,
                                      status |-> [variant |-> "Creating", pid |-> <<>>,
                                                  exit_code |-> <<>>]]]
        /\ (j.status \in {"created", "running", "paused"} /\ j.pid # <<>>)
              => /\ call.out.ok
                 /\ call.out.val.status.variant
                       = (CASE j.status = "created" -> "Created"
                            [] j.status = "running" -> "Running"
                            [] OTHER -> "Paused")
                 /\ call.out.val.status.pid = j.pid
                 /\ call.out.val.status.exit_code = <<>>
        /\ (j.status = "stopped" /\ j.exit_code # <<>>)
              => /\ call.out.ok
                 /\ call.out.val.status
                       = [variant |-> "Stopped", pid |-> <<>>, exit_code |-> j.exit_code]

\* A stopped object with exit_code 0 that also carries pid 168495 was read as
\* Stopped with exit code 0.
C22_Witness ==
    /\ call.fn = "decode"
    /\ call.json.status = "stopped"
    /\ call.json.exit_code = <<0>>
    /\ call.json.pid = <<168495>>
    /\ call.out.ok
    /\ call.out.val.status = [variant |-> "Stopped", pid |-> <<>>, exit_code |-> <<0>>]

\* C23: the handshake of Container::create runs its phases in order: the ready
\* byte is written only after the monitor was spawned, the monitor's exit is
\* awaited only after the ready write, the PID line is read only after a zero
\* exit, the console socket is connected only after the PID was read, and a
\* handle comes to exist only by the step that connected the socket.
C23_HandshakeInOrder ==
    [][/\ \A t \in Tasks :
            pc'[t] # pc[t] =>
               /\ pc'[t] = "ready" => pc[t] = "spawn"
               /\ pc'[t] \in {"wait", "waitE"} => pc[t] = "ready"
               /\ pc'[t] = "getpid"
                     => /\ pc[t] = "wait"
                        /\ ev' = Event(t, "create", "wait", nm[t], MonitorExited(TRUE),
                                       NoName, "none")
               /\ pc'[t] = "connect"
                     => /\ pc[t] = "getpid"
                        /\ runtime'[nm[t]] = [inst |-> held'[t], st |-> "created"]
               /\ pc'[t] = "start" => pc[t] = "connect"
       /\ \A h \in baseDirs' \ baseDirs :
            \E t \in Tasks : /\ pc[t] = "connect"
                             /\ pc'[t] = "start"
                             /\ held[t] = h]_vars

\* A create has just connected the console socket: its handle exists and the
\* call stands before the start.
C23_Witness ==
    /\ ev.op = "create"
    /\ ev.at = "connect"
    /\ ev.ret = "none"
    /\ pc[ev.t] = "start"
    /\ held[ev.t] \in baseDirs
    /\ runtime[ev.arg].inst = held[ev.t]

\* C24: when the monitor exits with a non-zero status, after a ready write that
\* succeeded or failed, create returns the error that carries the monitor's
\* stderr without reading the sync pipe or connecting the socket, and no handle
\* is made; a failed ready write never returns before the monitor's exit was
\* awaited.
C24_MonitorFailure ==
    [][\A t \in Tasks :
         /\ (ev'.t = t /\ ev'.crun = MonitorExited(FALSE))
               => /\ pc[t] \in {"wait", "waitE"}
                  /\ ev'.ret = MonitorFailed
                  /\ pc'[t] = "idle"
                  /\ held'[t] = NoHandle
                  /\ tdir'[t] = "none"
                  /\ runtime' = runtime
                  /\ baseDirs' = baseDirs
                  /\ containers' = containers
         /\ (pc[t] = "ready" /\ pc'[t] # pc[t]) => pc'[t] \in {"wait", "waitE"}
         /\ (pc[t] = "waitE" /\ pc'[t] # pc[t])
               => /\ pc'[t] = "idle"
                  /\ ev'.t = t
                  /\ ev'.crun \in {MonitorExited(TRUE), MonitorExited(FALSE)}
                  /\ ev'.ret \in {"err", MonitorFailed}]_vars

\* After a failed ready write the monitor exited non-zero and create returned
\* the error with its stderr.
C24_Witness ==
    /\ ev.op = "create"
    /\ ev.at = "waitE"
    /\ ev.crun = MonitorExited(FALSE)
    /\ ev.ret = MonitorFailed
    /\ pc[ev.t] = "idle"

\* C25: Engine::create fetches, unpacks, creates the handle, starts and inserts
\* in that order, and a name becomes a key only by the insert of a create whose
\* runtime start has succeeded.
C25_CreateInOrder ==
    [][/\ \A t \in Tasks :
            pc'[t] # pc[t] =>
               /\ pc'[t] = "fetch" => (pc[t] = "idle" /\ containers[nm'[t]] = NoHandle)
               /\ pc'[t] = "unpack" => pc[t] = "fetch"
               /\ pc'[t] = "spawn" => pc[t] = "unpack"
               /\ pc'[t] = "start" => (pc[t] = "connect" /\ held[t] \in baseDirs')
               /\ pc'[t] = "insert"
                     => /\ pc[t] = "start"
                        /\ ev' = Event(t, "create", "start", nm[t], "start", nm[t], "none")
                        /\ runtime[nm[t]].st = "created"
                        /\ runtime'[nm[t]].st = "running"
       /\ \A n \in Names :
            (containers'[n] # containers[n] /\ containers'[n] # NoHandle)
               => \E t \in Tasks : /\ pc[t] = "insert"
                                   /\ op[t] = "create"
                                   /\ nm[t] = n
                                   /\ held[t] = containers'[n]
                                   /\ pc'[t] = "idle"]_vars

\* A create has just inserted its started container under a name that was not
\* a key.
C25_Witness ==
    /\ ev.op = "create"
    /\ ev.at = "insert"
    /\ ev.crun = "none"
    /\ ev.ret = "ok"
    /\ containers[ev.arg] # NoHandle
    /\ runtime[ev.arg].st = "running"

\* C26: whenever a handle is released (by Engine::delete, by clear(), after a
\* failed start or as the value an insert replaced) the synchronous
\* `crun delete --force <id>` of its drop has completed, whether it succeeded or
\* not, before the bundle's base directory is removed.
C26_DeleteBeforeDirRemoval ==
    [][/\ \A h \in baseDirs \ baseDirs' :
            \/ \E t \in Tasks : pc[t] = "fields" /\ held[t] = h /\ pc'[t] = "idle"
            \/ sig = "dropping" /\ dropping = h /\ dropping' = NoHandle
       /\ \A t \in Tasks :
            (pc'[t] = "fields" /\ pc[t] # "fields")
               => /\ ev'.t = t
                  /\ ev'.crun = "delete"
                  /\ ev'.id = nm[t]
                  /\ held'[t] \in baseDirs'
       /\ (dropping' # NoHandle /\ dropping' # dropping)
               => /\ ev'.t = SigTask
                  /\ ev'.crun = "delete"
                  /\ ev'.id \in Names
                  /\ containers[ev'.id] = dropping'
                  /\ dropping' \in baseDirs']_vars

\* Engine::delete has just removed the base directory of the handle it took
\* from the registry, after a forced delete that failed.
C26_Witness ==
    /\ ev.op = "delete"
    /\ ev.at = "fields"
    /\ ev.ret = "err"
    /\ runtime[ev.arg] # NoContainer
    /\ runtime[ev.arg].inst \notin baseDirs

\* C27: there is no per-key guard: a create that is first polled while its name
\* is not a key goes on to fetch whatever other calls are in flight, and from
\* there on no step of a create looks at the other tasks, so that two creates of
\* one name can stand at the insert together.
C27_NoPerKeyGuard ==
    [][\A t \in Tasks :
         (ev'.t = t /\ ev'.op = "create" /\ ev'.at = "idle" /\ ev' # ev)
            => IF containers[ev'.arg] = NoHandle
               THEN pc'[t] = "fetch" /\ nm'[t] = ev'.arg /\ ev'.ret = "none"
               ELSE pc'[t] = "idle" /\ ev'.ret = "ok"]_vars

\* Two creates of the same name, which is not a key, both stand at the insert
\* with a handle each.
C27_Witness ==
    \E t, u \in Tasks :
        /\ t # u
        /\ op[t] = "create" /\ op[u] = "create"
        /\ nm[t] = nm[u]
        /\ pc[t] = "insert" /\ pc[u] = "insert"
        /\ held[t] # held[u]
        /\ containers[nm[t]] = NoHandle

\* C28: Engine::delete of a registered name takes the entry out of the registry
\* when it is first polled, before the runtime command runs and so whether or
\* not that command succeeds; the result of the command, the error when it
\* failed, is what the call returns; and the handle it took is released before
\* the call returns: its drop runs `crun delete --force <id>` and removes the
\* bundle's base directory.  The name stays out of the registry unless a create
\* inserts it anew.
C28_DeleteRemovesEntry ==
    [][/\ \A t \in Tasks :
            /\ (ev'.t = t /\ ev'.op = "delete" /\ ev'.at = "idle" /\ ev' # ev
                  /\ containers[ev'.arg] # NoHandle)
                  => /\ containers'[ev'.arg] = NoHandle
                     /\ held'[t] = containers[ev'.arg]
                     /\ pc'[t] = "delete"
                     /\ runtime' = runtime
            /\ (op[t] = "delete" /\ pc[t] = "delete" /\ pc'[t] # pc[t])
                  => /\ pc'[t] = "drop"
                     /\ held'[t] = held[t]
                     /\ ev'.crun = "delete" /\ ev'.id = nm[t]
                     /\ ret'[t] \in {"ok", "err"}
                     /\ ret'[t] = "ok" => runtime'[nm[t]] = NoContainer
                     /\ containers' = containers
            /\ (op[t] = "delete" /\ pc[t] = "drop" /\ pc'[t] # pc[t])
                  => /\ pc'[t] = "idle"
                     /\ ev' = Event(t, "delete", "drop", nm[t], "delete", nm[t], ret[t])
                     /\ held[t] \notin baseDirs'
                     /\ \A n \in Names : containers'[n] # held[t]
       /\ \A n \in Names :
            (containers[n] = NoHandle /\ containers'[n] # NoHandle)
               => \E u \in Tasks : op[u] = "create" /\ pc[u] = "insert" /\ nm[u] = n]_vars

\* Engine::delete has just returned the error of a runtime delete that failed:
\* the name is not a key, the handle's drop has run and its base directory is
\* gone, and the runtime still knows the container.
C28_Witness ==
    /\ ev.op = "delete"
    /\ ev.at = "drop"
    /\ ev.crun = "delete"
    /\ ev.ret = "err"
    /\ containers[ev.arg] = NoHandle
    /\ runtime[ev.arg].st = "running"
    /\ runtime[ev.arg].inst \notin baseDirs
    /\ pc[ev.t] = "idle"

====
